---- MODULE Spec2Model ----
(***************************************************************************)
(* Model of the TACO food search server (src/index.ts): the JSON dataset,  *)
(* the seven tools registered on the server, the nullableNumber coercion   *)
(* of src/types.ts and the loader of src/loadTacoData.ts.                  *)
(*                                                                         *)
(* JavaScript values are tagged records (JsNum, JsStr, JsNull,             *)
(* JsUndefined, JsNaN); strings are sequences of one-character strings so  *)
(* that trimming, lower-casing, substring search and number parsing are    *)
(* computed.  Numbers are integers counting hundredths (1.5 is 150).       *)
(***************************************************************************)
EXTENDS Integers, Sequences, FiniteSets, TLC

VARIABLES tacoFile, miniSearch, pc, op, args, tacoData, results, result

vars == <<tacoFile, miniSearch, pc, op, args, tacoData, results, result>>

\* ------------------------------------------------------------------ bounds
MaxLen == 3
MaxBatch == 2

\* ------------------------------------------------------- JavaScript values
JsNum(n) == [t |-> "number", n |-> n, s |-> <<>>]
JsNaN == [t |-> "nan", n |-> 0, s |-> <<>>]
JsNull == [t |-> "null", n |-> 0, s |-> <<>>]
JsUndefined == [t |-> "undefined", n |-> 0, s |-> <<>>]
JsStr(s) == [t |-> "string", n |-> 0, s |-> s]

\* typeof v
TypeOf(v) == IF v.t = "nan" THEN "number" ELSE IF v.t = "null" THEN "object" ELSE v.t

\* isNaN(v) for a value whose typeof is "number"
IsNaN(v) == v.t = "nan"

\* --------------------------------------------------------------- strings
Digits == <<"0", "1", "2", "3", "4", "5", "6", "7", "8", "9">>

IsDigit(c) == \E d \in 1..10 : Digits[d] = c

DigitVal(c) == (CHOOSE d \in 1..10 : Digits[d] = c) - 1

\* String.prototype.toLowerCase, on the letters the model uses
LowerChar(c) ==
  CASE c = "A" -> "a"
    [] c = "B" -> "b"
    [] c = "C" -> "c"
    [] c = "N" -> "n"
    [] c = "T" -> "t"
    [] OTHER -> c

ToLowerCase(s) == [i \in 1..Len(s) |-> LowerChar(s[i])]

\* String.prototype.includes
Includes(s, sub) ==
  \E k \in 0..(Len(s) - Len(sub)) : \A j \in 1..Len(sub) : s[k + j] = sub[j]

RECURSIVE TrimStart(_)
TrimStart(s) == IF s # <<>> /\ Head(s) = " " THEN TrimStart(Tail(s)) ELSE s

RECURSIVE TrimEnd(_)
TrimEnd(s) ==
  IF s # <<>> /\ s[Len(s)] = " " THEN TrimEnd(SubSeq(s, 1, Len(s) - 1)) ELSE s

\* String.prototype.trim
Trim(s) == TrimEnd(TrimStart(s))

\* index of the first occurrence of character c in s, 0 when there is none
IndexOfChar(s, c) ==
  IF \E i \in 1..Len(s) : s[i] = c
  THEN CHOOSE i \in 1..Len(s) : s[i] = c /\ \A j \in 1..(i - 1) : s[j] # c
  ELSE 0

\* String.prototype.replace(from, to) with one-character strings:
\* only the first occurrence is replaced
ReplaceFirst(s, from, to) ==
  LET k == IndexOfChar(s, from)
  IN IF k = 0 THEN s ELSE [i \in 1..Len(s) |-> IF i = k THEN to ELSE s[i]]

RECURSIVE DigitsValue(_)
DigitsValue(s) ==
  IF s = <<>> THEN 0 ELSE 10 * DigitsValue(SubSeq(s, 1, Len(s) - 1)) + DigitVal(s[Len(s)])

AllDigits(s) == \A i \in 1..Len(s) : IsDigit(s[i])

\* value in hundredths of the fraction digits (at most two are kept)
FractionValue(s) ==
  IF Len(s) = 0 THEN 0
  ELSE IF Len(s) = 1 THEN 10 * DigitVal(s[1])
  ELSE 10 * DigitVal(s[1]) + DigitVal(s[2])

\* Number(s) for a string: white space is trimmed, the empty string is 0,
\* an unsigned decimal literal is its value, anything else is NaN
StringToNumber(s) ==
  LET t == Trim(s)
      dot == IndexOfChar(t, ".")
      int == IF dot = 0 THEN t ELSE SubSeq(t, 1, dot - 1)
      frac == IF dot = 0 THEN <<>> ELSE SubSeq(t, dot + 1, Len(t))
  IN IF t = <<>> THEN JsNum(0)
     ELSE IF AllDigits(int) /\ AllDigits(frac) /\ Len(int) + Len(frac) > 0
     THEN JsNum(100 * DigitsValue(int) + FractionValue(frac))
     ELSE JsNaN

\* ToNumber(v), the conversion applied by >=, <= and - to their operands
ToNumber(v) ==
  CASE v.t = "number" -> v
    [] v.t = "nan" -> JsNaN
    [] v.t = "null" -> JsNum(0)
    [] v.t = "undefined" -> JsNaN
    [] v.t = "string" -> StringToNumber(v.s)

\* a >= b and a <= b: false as soon as one side converts to NaN
JsGe(a, b) ==
  LET x == ToNumber(a)
      y == ToNumber(b)
  IN x.t = "number" /\ y.t = "number" /\ x.n >= y.n

JsLe(a, b) ==
  LET x == ToNumber(a)
      y == ToNumber(b)
  IN x.t = "number" /\ y.t = "number" /\ x.n <= y.n

\* a - b
JsMinus(a, b) ==
  LET x == ToNumber(a)
      y == ToNumber(b)
  IN IF x.t = "number" /\ y.t = "number" THEN JsNum(x.n - y.n) ELSE JsNaN

\* Array.prototype.slice(0, end) for an integer end
Slice(arr, end) ==
  LET e == IF end < 0 THEN (IF Len(arr) + end < 0 THEN 0 ELSE Len(arr) + end)
           ELSE IF end > Len(arr) THEN Len(arr) ELSE end
  IN SubSeq(arr, 1, e)

\* ------------------------------------------------------------ types.ts
Sentinels == {<<>>, <<"N", "A">>, <<"*">>, <<"T", "r">>, <<",", "0", ",", "0", "2">>}

\* the preprocess step of nullableNumber
nullableNumber(val) ==
  IF TypeOf(val) = "number" THEN val
  ELSE IF TypeOf(val) = "string"
  THEN LET trimmed == Trim(val.s)
           parsed == StringToNumber(ReplaceFirst(trimmed, ",", "."))
       IN IF trimmed \in Sentinels THEN JsNull
          ELSE IF IsNaN(parsed) THEN JsNull ELSE parsed
  ELSE JsNull

\* ------------------------------------------------------------- the dataset
\* item[key]: undefined when the record has no such property
JsGet(item, key) == IF key \in DOMAIN item THEN item[key] ELSE JsUndefined

FoodItem(id, description, category, protein, fiber) ==
  [id |-> id, description |-> description, category |-> category,
   energy_kcal |-> JsNum(100), protein_g |-> protein,
   carbohydrate_g |-> JsNum(100), lipid_g |-> JsNum(100), fiber_g |-> fiber]

\* rows of TACO.json as JSON.parse yields them (the id is set by position)
Rows ==
  { FoodItem(0, <<"A", "b">>, <<"C">>, JsNum(2), JsNum(1)),
    FoodItem(0, <<"b">>, <<"C", "a">>, JsNull, JsNum(1)),
    FoodItem(0, <<"b", "b">>, <<"C">>, JsNum(1), JsStr(<<>>)),
    FoodItem(0, <<"A", "b">>, <<"C", "a">>, JsNum(0), JsStr(<<"T", "r">>)),
    FoodItem(0, <<"b">>, <<"B">>, JsNum(2), JsStr(<<"1", ",", "5">>)) }

\* ids are unique and are not the positions
IdAt(i) == 2 * i + 1

Datasets ==
  UNION { { [i \in 1..n |-> [rows[i] EXCEPT !.id = IdAt(i)]] : rows \in [1..n -> Rows] }
          : n \in 0..MaxLen }

\* loadTacoData(): JSON.parse of the file, cast to FoodItem[]
loadTacoData(file) == file

\* ------------------------------------------------------------- tool inputs
DefaultLimit == 10
StringItemLimit == 10

NutrientFilters ==
  << <<"energy_kcal", "min_energy_kcal", "max_energy_kcal">>,
     <<"protein_g", "min_protein_g", "max_protein_g">>,
     <<"carbohydrate_g", "min_carbohydrate_g", "max_carbohydrate_g">>,
     <<"lipid_g", "min_lipid_g", "max_lipid_g">>,
     <<"fiber_g", "min_fiber_g", "max_fiber_g">> >>

\* an advanced query descriptor; absent keys are undefined
Params(query, minP, maxP, minF, sortBy, sortOrder, limit) ==
  [query |-> query,
   min_energy_kcal |-> JsUndefined, max_energy_kcal |-> JsUndefined,
   min_protein_g |-> minP, max_protein_g |-> maxP,
   min_carbohydrate_g |-> JsUndefined, max_carbohydrate_g |-> JsUndefined,
   min_lipid_g |-> JsUndefined, max_lipid_g |-> JsUndefined,
   min_fiber_g |-> minF, max_fiber_g |-> JsUndefined,
   sort_by |-> sortBy, sort_order |-> sortOrder, limit |-> limit]

\* a limit is a count: JsNum(n) holds n itself
Limits == {JsUndefined, JsNum(-1), JsNum(0), JsNum(1)}

\* value ?? fallback
OrElse(v, fallback) == IF v.t \in {"undefined", "null"} THEN fallback ELSE v

\* ------------------------------------------------- shared query machinery
\* a text filter that looks at the description only
QueryMatchesDescriptionOnly(item, query) ==
  Includes(ToLowerCase(item.description), ToLowerCase(query))

\* description or category contains the query, case-insensitively
QueryMatches(item, query) ==
  \/ Includes(ToLowerCase(item.description), ToLowerCase(query))
  \/ Includes(ToLowerCase(item.category), ToLowerCase(query))

RECURSIVE ApplyNutrientFilters(_, _, _)
ApplyNutrientFilters(arr, params, k) ==
  IF k > Len(NutrientFilters) THEN arr
  ELSE LET nutrient == NutrientFilters[k][1]
           min == params[NutrientFilters[k][2]]
           max == params[NutrientFilters[k][3]]
           r1 == IF min # JsUndefined
                 THEN SelectSeq(arr, LAMBDA item : JsGe(JsGet(item, nutrient), min))
                 ELSE arr
           r2 == IF max # JsUndefined
                 THEN SelectSeq(r1, LAMBDA item : JsLe(JsGet(item, nutrient), max))
                 ELSE r1
       IN ApplyNutrientFilters(r2, params, k + 1)

\* true when no filter() ran, so that results is still the tacoData array
SameArray(params) ==
  /\ ~(params.query.t = "string" /\ params.query.s # <<>>)
  /\ \A k \in 1..Len(NutrientFilters) :
       /\ params[NutrientFilters[k][2]] = JsUndefined
       /\ params[NutrientFilters[k][3]] = JsUndefined

\* the sort comparator; a NaN result counts as 0
Compare(a, b, sortBy, sortOrder) ==
  LET valA == JsGet(a, sortBy)
      valB == JsGet(b, sortBy)
      d == IF sortOrder = "asc" THEN JsMinus(valA, valB) ELSE JsMinus(valB, valA)
  IN IF IsNaN(d) THEN 0 ELSE d.n

\* the comparator orders arr consistently: no operand converts to NaN, or
\* every pair compares equal
ConsistentComparator(arr, sortBy) ==
  LET nums == {ToNumber(JsGet(arr[i], sortBy)) : i \in 1..Len(arr)}
  IN \/ JsNaN \notin nums
     \/ Cardinality(nums \ {JsNaN}) <= 1

RECURSIVE InsertSorted(_, _, _, _)
InsertSorted(sorted, x, sortBy, sortOrder) ==
  IF sorted = <<>> THEN <<x>>
  ELSE IF Compare(Head(sorted), x, sortBy, sortOrder) > 0 THEN <<x>> \o sorted
  ELSE <<Head(sorted)>> \o InsertSorted(Tail(sorted), x, sortBy, sortOrder)

RECURSIVE StableSort(_, _, _)
StableSort(arr, sortBy, sortOrder) ==
  IF arr = <<>> THEN <<>>
  ELSE InsertSorted(StableSort(SubSeq(arr, 1, Len(arr) - 1), sortBy, sortOrder),
                    arr[Len(arr)], sortBy, sortOrder)

Orderings(arr) ==
  { [i \in 1..Len(arr) |-> arr[p[i]]] :
      p \in { f \in [1..Len(arr) -> 1..Len(arr)] :
                \A i, j \in 1..Len(arr) : f[i] = f[j] => i = j } }

\* Array.prototype.sort with the comparator: a stable sort when the
\* comparator is consistent, an implementation-defined order otherwise
SortOutcomes(arr, sortBy, sortOrder) ==
  IF ConsistentComparator(arr, sortBy)
  THEN {StableSort(arr, sortBy, sortOrder)}
  ELSE Orderings(arr)

\* ------------------------------------------------------------ tool bodies
NoFoods == [kind |-> "none", items |-> <<>>]

Foods(items) == IF Len(items) = 0 THEN NoFoods ELSE [kind |-> "foods", items |-> items]

\* the terms of a text: split at spaces, lower-cased
RECURSIVE Tokens(_)
Tokens(s) ==
  LET sp == IndexOfChar(s, " ")
  IN IF s = <<>> THEN {}
     ELSE IF sp = 0 THEN {ToLowerCase(s)}
     ELSE (IF sp = 1 THEN {} ELSE {ToLowerCase(SubSeq(s, 1, sp - 1))})
          \cup Tokens(SubSeq(s, sp + 1, Len(s)))

IsPrefix(p, s) == Len(p) <= Len(s) /\ SubSeq(s, 1, Len(p)) = p

\* a document matches when a term of the query is a prefix of a term of
\* its description or category (prefix: true; the fuzzy distance of 0.2
\* times the term length rounds to 0 for the short terms used here)
IndexMatches(doc, query) ==
  \E term \in Tokens(query) :
    \E tok \in Tokens(doc.description) \cup Tokens(doc.category) : IsPrefix(term, tok)

\* miniSearch.search(query): the matching documents ranked by the library's
\* score, here any order of them
SearchRankings(index, query) ==
  Orderings(SelectSeq(index, LAMBDA doc : IndexMatches(doc, query)))

\* find() with >= in place of ===
FindByIdAtLeast(data, id) ==
  IF \E i \in 1..Len(data) : data[i].id >= id
  THEN <<data[CHOOSE i \in 1..Len(data) :
                 data[i].id >= id /\ \A j \in 1..(i - 1) : data[j].id < id]>>
  ELSE <<>>

\* getFoodById: tacoData.find(item => item.id === id)
FindById(data, id) ==
  IF \E i \in 1..Len(data) : data[i].id = id
  THEN <<data[CHOOSE i \in 1..Len(data) :
                 data[i].id = id /\ \A j \in 1..(i - 1) : data[j].id # id]>>
  ELSE <<>>

\* deduplication that keeps the last occurrence of each value
RECURSIVE DedupeKeepLast(_)
DedupeKeepLast(values) ==
  IF values = <<>> THEN <<>>
  ELSE LET rest == DedupeKeepLast(Tail(values))
       IN IF \E i \in 1..Len(rest) : rest[i] = Head(values) THEN rest
          ELSE <<Head(values)>> \o rest

\* Array.from(new Set(values)): first occurrences, in order
RECURSIVE Dedupe(_)
Dedupe(values) ==
  IF values = <<>> THEN <<>>
  ELSE LET init == Dedupe(SubSeq(values, 1, Len(values) - 1))
           last == values[Len(values)]
       IN IF \E i \in 1..Len(init) : init[i] = last THEN init ELSE Append(init, last)

Categories(data) == Dedupe([i \in 1..Len(data) |-> data[i].category])

\* the callback without the typeof guard, comparing as >= and <= do
NutrientInRangeCoercing(item, nutrient, min, max) ==
  LET value == JsGet(item, nutrient)
  IN /\ (min # JsUndefined => JsGe(value, min))
     /\ (max # JsUndefined => JsLe(value, max))

\* the filter callback of filterByNutrient
NutrientInRange(item, nutrient, min, max) ==
  LET value == JsGet(item, nutrient)
  IN /\ ~(TypeOf(value) # "number" \/ IsNaN(value))
     /\ ~(min # JsUndefined /\ value.n < min.n)
     /\ ~(max # JsUndefined /\ value.n > max.n)

FilterByNutrient(data, nutrient, min, max) ==
  SelectSeq(data, LAMBDA item : NutrientInRange(item, nutrient, min, max))

\* Math.floor(Math.random() * length), Math.random() being num / RandomSteps
RandomSteps == 4

\* Math.ceil in place of Math.floor
RandomIndexCeil(num, length) == (num * length + RandomSteps - 1) \div RandomSteps

RandomIndex(num, length) == (num * length) \div RandomSteps

\* the text and range filters of advancedFoodSearch and of runSearch
FilterResults(data, params) ==
  LET byQuery == IF params.query.t = "string" /\ params.query.s # <<>>
                 THEN SelectSeq(data, LAMBDA item : QueryMatches(item, params.query.s))
                 ELSE data
  IN ApplyNutrientFilters(byQuery, params, 1)

\* the arrays results.sort() can leave in results (results itself when no
\* sort is requested)
SortedResults(filtered, params) ==
  IF params.sort_by # "undefined"
  THEN SortOutcomes(filtered, params.sort_by, params.sort_order)
  ELSE {filtered}

\* runSearch(q) on the batch's tacoData array: the outcomes are the block
\* returned and the tacoData array left behind (sorted in place when
\* results is tacoData itself)
runSearch(q, data) ==
  IF q.kind = "string"
  THEN { [block |-> Foods(Slice(SelectSeq(data, LAMBDA item : QueryMatches(item, q.q)),
                                StringItemLimit)),
          data |-> data] }
  ELSE IF q.kind = "object"
  THEN { [block |-> Foods(Slice(sorted, OrElse(q.q.limit, JsNum(DefaultLimit)).n)),
          data |-> IF q.q.sort_by # "undefined" /\ SameArray(q.q) THEN sorted ELSE data]
         : sorted \in SortedResults(FilterResults(data, q.q), q.q) }
  ELSE { [block |-> [kind |-> "invalid", items |-> <<>>], data |-> data] }

\* a batch that stops at the first item without results
RECURSIVE BatchOutcomesStopAtEmpty(_, _, _)
BatchOutcomesStopAtEmpty(queries, i, data) ==
  IF i > Len(queries) THEN { [blocks |-> <<>>, data |-> data] }
  ELSE UNION { IF o.block.kind = "none" THEN { [blocks |-> <<>>, data |-> o.data] }
               ELSE { [blocks |-> <<[index |-> i, kind |-> o.block.kind,
                                     items |-> o.block.items]>> \o rest.blocks,
                       data |-> rest.data]
                      : rest \in BatchOutcomesStopAtEmpty(queries, i + 1, o.data) }
               : o \in runSearch(queries[i], data) }

\* queries.map((q, i) => `Query ${i + 1}: ...`), from item i on
RECURSIVE BatchOutcomes(_, _, _)
BatchOutcomes(queries, i, data) ==
  IF i > Len(queries) THEN { [blocks |-> <<>>, data |-> data] }
  ELSE UNION { { [blocks |-> <<[index |-> i, kind |-> o.block.kind, items |-> o.block.items]>>
                              \o rest.blocks,
                  data |-> rest.data]
                 : rest \in BatchOutcomes(queries, i + 1, o.data) }
               : o \in runSearch(queries[i], data) }

\* ------------------------------------------------------------ input sets
SearchTexts == {<<>>, <<"a">>}

Nutrients == {"protein_g", "fiber_g", "unknown_g"}

MinValues == {JsUndefined, JsNum(0), JsNum(2)}

MaxValues == {JsUndefined, JsNum(0), JsNum(1)}

\* min_protein_g, max_protein_g and min_fiber_g of an advanced query
Ranges ==
  { <<JsUndefined, JsUndefined, JsUndefined>>,
    <<JsNum(0), JsUndefined, JsUndefined>>,
    <<JsUndefined, JsNum(1), JsUndefined>>,
    <<JsNum(-1), JsNum(1), JsNum(1)>>,
    <<JsNum(2), JsUndefined, JsNum(0)>> }

\* sort_by and sort_order as the schema of advancedFoodSearch delivers them
\* (sort_order defaults to "desc")
Sorts ==
  { <<"undefined", "desc">>, <<"protein_g", "asc">>, <<"protein_g", "desc">>,
    <<"fiber_g", "desc">> }

AdvancedQueries ==
  { Params(query, range[1], range[2], range[3], sort[1], sort[2], limit) :
      query \in {JsUndefined, JsStr(<<>>), JsStr(<<"a">>)},
      range \in Ranges,
      sort \in Sorts,
      limit \in {JsUndefined, JsNum(-1), JsNum(1)} }

StringItem(text) == [kind |-> "string", q |-> text]

ObjectItem(params) == [kind |-> "object", q |-> params]

BatchItems ==
  { StringItem(<<"a">>),
    StringItem(<<"z">>),
    ObjectItem(Params(JsUndefined, JsUndefined, JsUndefined, JsUndefined,
                      "protein_g", "undefined", JsUndefined)),
    ObjectItem(Params(JsUndefined, JsUndefined, JsUndefined, JsNum(1),
                      "undefined", "undefined", JsNum(1))),
    ObjectItem(Params(JsUndefined, JsNum(0), JsUndefined, JsUndefined,
                      "protein_g", "asc", JsUndefined)),
    ObjectItem(Params(JsStr(<<"A">>), JsUndefined, JsUndefined, JsUndefined,
                      "undefined", "undefined", JsUndefined)),
    ObjectItem(Params(JsStr(<<>>), JsUndefined, JsUndefined, JsUndefined,
                      "undefined", "undefined", JsUndefined)) }

Batches == UNION { [1..n -> BatchItems] : n \in 0..MaxBatch }

\* ---------------------------------------------------------------- actions
Init ==
  /\ tacoFile \in Datasets
  /\ miniSearch = tacoFile
  /\ pc = "idle"
  /\ op = "none"
  /\ args = <<>>
  /\ tacoData = <<>>
  /\ results = <<>>
  /\ result = NoFoods

searchFoods ==
  /\ pc = "idle"
  /\ \E query \in SearchTexts, limit \in Limits :
       \E ranking \in SearchRankings(miniSearch, query) :
         /\ op' = "searchFoods"
         /\ args' = [query |-> query, limit |-> limit]
         /\ results' = ranking
         /\ result' = Foods(Slice(ranking, OrElse(limit, JsNum(DefaultLimit)).n))
  /\ tacoData' = <<>>
  /\ pc' = "done"
  /\ UNCHANGED <<tacoFile, miniSearch>>

getFoodById ==
  /\ pc = "idle"
  /\ \E id \in 0..IdAt(MaxLen) :
       LET food == FindById(loadTacoData(tacoFile), id)
       IN /\ op' = "getFoodById"
          /\ args' = [id |-> id]
          /\ results' = food
          /\ result' = IF food = <<>> THEN [kind |-> "notFound", items |-> <<>>]
                       ELSE [kind |-> "food", items |-> food]
  /\ tacoData' = loadTacoData(tacoFile)
  /\ pc' = "done"
  /\ UNCHANGED <<tacoFile, miniSearch>>

listCategories ==
  /\ pc = "idle"
  /\ op' = "listCategories"
  /\ args' = <<>>
  /\ tacoData' = loadTacoData(tacoFile)
  /\ results' = Categories(loadTacoData(tacoFile))
  /\ result' = [kind |-> "categories", items |-> Categories(loadTacoData(tacoFile))]
  /\ pc' = "done"
  /\ UNCHANGED <<tacoFile, miniSearch>>

filterByNutrient ==
  /\ pc = "idle"
  /\ \E nutrient \in Nutrients, min \in MinValues, max \in MaxValues, limit \in Limits :
       LET filtered == FilterByNutrient(loadTacoData(tacoFile), nutrient, min, max)
       IN /\ op' = "filterByNutrient"
          /\ args' = [nutrient |-> nutrient, min |-> min, max |-> max, limit |-> limit]
          /\ results' = filtered
          /\ result' = Foods(Slice(filtered, OrElse(limit, JsNum(DefaultLimit)).n))
  /\ tacoData' = loadTacoData(tacoFile)
  /\ pc' = "done"
  /\ UNCHANGED <<tacoFile, miniSearch>>

randomFood ==
  /\ pc = "idle"
  /\ \E num \in 0..(RandomSteps - 1) :
       LET data == loadTacoData(tacoFile)
           idx == RandomIndex(num, Len(data))
       IN /\ op' = "randomFood"
          /\ args' = [random |-> num, idx |-> idx]
          /\ results' = <<>>
          /\ result' = IF Len(data) = 0 THEN [kind |-> "noData", items |-> <<>>]
                       ELSE IF idx + 1 \notin DOMAIN data
                       THEN [kind |-> "noData", items |-> <<>>]
                       ELSE [kind |-> "food", items |-> <<data[idx + 1]>>]
  /\ tacoData' = loadTacoData(tacoFile)
  /\ pc' = "done"
  /\ UNCHANGED <<tacoFile, miniSearch>>

advancedFoodSearch ==
  /\ pc = "idle"
  /\ \E params \in AdvancedQueries :
       LET data == loadTacoData(tacoFile)
       IN \E sorted \in SortedResults(FilterResults(data, params), params) :
            /\ op' = "advancedFoodSearch"
            /\ args' = params
            /\ results' = sorted
            /\ tacoData' = IF params.sort_by # "undefined" /\ SameArray(params)
                           THEN sorted ELSE data
            /\ result' = Foods(Slice(sorted, OrElse(params.limit, JsNum(DefaultLimit)).n))
  /\ pc' = "done"
  /\ UNCHANGED <<tacoFile, miniSearch>>

batchFoodSearch ==
  /\ pc = "idle"
  /\ \E queries \in Batches :
       \E outcome \in BatchOutcomes(queries, 1, loadTacoData(tacoFile)) :
         /\ op' = "batchFoodSearch"
         /\ args' = [queries |-> queries]
         /\ results' = <<>>
         /\ tacoData' = outcome.data
         /\ result' = [kind |-> "batch", items |-> outcome.blocks]
  /\ pc' = "done"
  /\ UNCHANGED <<tacoFile, miniSearch>>

\* the server returns the tool's value to the caller and waits for the
\* next request; the handler's locals are gone
Reply ==
  /\ pc = "done"
  /\ pc' = "idle"
  /\ op' = "none"
  /\ args' = <<>>
  /\ tacoData' = <<>>
  /\ results' = <<>>
  /\ result' = NoFoods
  /\ UNCHANGED <<tacoFile, miniSearch>>

Next ==
  \/ searchFoods
  \/ getFoodById
  \/ listCategories
  \/ filterByNutrient
  \/ randomFood
  \/ advancedFoodSearch
  \/ batchFoodSearch
  \/ Reply

Spec == Init /\ [][Next]_vars

\* ----------------------------------------------------- shared vocabulary
\* the value is present and numeric
Numeric(v) == v.t = "number"

\* the position of a record of the dataset (ids are unique)
PosIn(data, item) == CHOOSE p \in 1..Len(data) : data[p].id = item.id

\* items holds records of data, in the order they have in data
InDatasetOrder(items, data) ==
  /\ \A i \in 1..Len(items) : \E p \in 1..Len(data) : data[p] = items[i]
  /\ \A i, j \in 1..Len(items) : i < j => PosIn(data, items[i]) < PosIn(data, items[j])

\* the fields an advanced query descriptor constrains
Constrained(params) ==
  { NutrientFilters[k][1] : k \in { j \in 1..Len(NutrientFilters) :
      \/ params[NutrientFilters[j][2]] # JsUndefined
      \/ params[NutrientFilters[j][3]] # JsUndefined } }

\* ------------------------------------------------------------------- C1
\* C1: in filterByNutrient, advancedFoodSearch and the object items of
\* batchFoodSearch, no returned record has an absent or non-numeric value
\* for a field the query constrains, whatever min and max are.
C1_AbsentNeverSatisfies ==
  /\ op = "filterByNutrient" =>
       \A i \in 1..Len(result.items) : Numeric(JsGet(result.items[i], args.nutrient))
  /\ op = "advancedFoodSearch" =>
       \A i \in 1..Len(result.items) : \A f \in Constrained(args) :
         Numeric(JsGet(result.items[i], f))
  /\ op = "batchFoodSearch" =>
       \A b \in 1..Len(result.items) :
         args.queries[b].kind = "object" =>
           \A i \in 1..Len(result.items[b].items) : \A f \in Constrained(args.queries[b].q) :
             Numeric(JsGet(result.items[b].items[i], f))

\* ------------------------------------------------------------------- C2
\* C2: every block of a batch is what its item gives when it is evaluated
\* alone on the dataset in load order, and the batch leaves the loaded
\* array as it was loaded.
C2_BatchItemsIndependent ==
  op = "batchFoodSearch" =>
    /\ \A b \in 1..Len(result.items) :
         \E alone \in runSearch(args.queries[b], loadTacoData(tacoFile)) :
           /\ result.items[b].kind = alone.block.kind
           /\ result.items[b].items = alone.block.items
    /\ tacoData = loadTacoData(tacoFile)

FirstN(candidates, n) ==
  IF n <= 0 THEN <<>>
  ELSE IF n >= Len(candidates) THEN candidates
  ELSE SubSeq(candidates, 1, n)

\* C4: searchFoods, filterByNutrient and advancedFoodSearch return the
\* first n candidates for a limit n (none when n <= 0, all when n is at
\* least their number), and a batch object item with a limit n <= 0 returns
\* nothing.
C4_LimitBoundary ==
  /\ op \in {"searchFoods", "filterByNutrient", "advancedFoodSearch"} =>
       result.items = FirstN(results, OrElse(args.limit, JsNum(DefaultLimit)).n)
  /\ op = "batchFoodSearch" =>
       \A b \in 1..Len(result.items) :
         (/\ args.queries[b].kind = "object"
          /\ args.queries[b].q.limit # JsUndefined
          /\ args.queries[b].q.limit.n <= 0) => result.items[b].items = <<>>

\* ------------------------------------------------------------------- C5
\* what filterByNutrient returns for the given arguments
FilterByNutrientItems(data, nutrient, min, max, limit) ==
  Slice(FilterByNutrient(data, nutrient, min, max), OrElse(limit, JsNum(DefaultLimit)).n)

\* C5: every record filterByNutrient returns has a numeric value within
\* the given bounds, the records are in dataset order, and with the same
\* limit a higher min or a lower max never returns more records.
C5_FilterSoundMonotone ==
  op = "filterByNutrient" =>
    /\ \A i \in 1..Len(result.items) :
         LET v == JsGet(result.items[i], args.nutrient)
         IN /\ Numeric(v)
            /\ args.min # JsUndefined => args.min.n <= v.n
            /\ args.max # JsUndefined => v.n <= args.max.n
    /\ InDatasetOrder(result.items, tacoFile)
    /\ \A min2 \in MinValues \ {JsUndefined} :
         (args.min = JsUndefined \/ min2.n >= args.min.n) =>
           Len(FilterByNutrientItems(tacoFile, args.nutrient, min2, args.max, args.limit))
             <= Len(result.items)
    /\ \A max2 \in MaxValues \ {JsUndefined} :
         (args.max = JsUndefined \/ max2.n <= args.max.n) =>
           Len(FilterByNutrientItems(tacoFile, args.nutrient, args.min, max2, args.limit))
             <= Len(result.items)

\* a filter with both bounds that kept a record and dropped a record with
\* an absent value and a record with a number out of range
C5_Witness ==
  /\ op = "filterByNutrient"
  /\ args.min # JsUndefined
  /\ args.max # JsUndefined
  /\ Len(result.items) >= 1
  /\ \E i \in 1..Len(tacoFile) : ~Numeric(JsGet(tacoFile[i], args.nutrient))
  /\ \E i \in 1..Len(tacoFile) :
       /\ Numeric(JsGet(tacoFile[i], args.nutrient))
       /\ JsGet(tacoFile[i], args.nutrient).n > args.max.n

\* ------------------------------------------------------------------- C6
\* the record satisfies every range constraint of the descriptor
SatisfiesRanges(item, params) ==
  \A k \in 1..Len(NutrientFilters) :
    LET v == JsGet(item, NutrientFilters[k][1])
        min == params[NutrientFilters[k][2]]
        max == params[NutrientFilters[k][3]]
    IN /\ min # JsUndefined => (Numeric(v) /\ v.n >= min.n)
       /\ max # JsUndefined => (Numeric(v) /\ v.n <= max.n)

\* seq is ordered by the field in the direction, records with equal values
\* in dataset order (records without a number are not compared)
OrderedBy(seq, data, field, direction) ==
  \A i, j \in 1..Len(seq) :
    LET a == JsGet(seq[i], field)
        b == JsGet(seq[j], field)
    IN (i < j /\ Numeric(a) /\ Numeric(b)) =>
         /\ IF direction = "asc" THEN a.n <= b.n ELSE a.n >= b.n
         /\ a.n = b.n => PosIn(data, seq[i]) < PosIn(data, seq[j])

\* C6: advancedFoodSearch with a sort field returns the first `limit`
\* records of the records that satisfy every range constraint, ordered by
\* the sort field in the requested direction with ties in dataset order.
C6_SortedTopLimit ==
  (op = "advancedFoodSearch" /\ args.sort_by # "undefined") =>
    \E ranked \in Orderings(SelectSeq(tacoFile, LAMBDA item :
                                        /\ SatisfiesRanges(item, args)
                                        /\ (args.query = JsUndefined \/ args.query.s = <<>>
                                            \/ QueryMatches(item, args.query.s)))) :
      /\ OrderedBy(ranked, tacoFile, args.sort_by, args.sort_order)
      /\ result.items = FirstN(ranked, OrElse(args.limit, JsNum(DefaultLimit)).n)

\* ------------------------------------------------------------------- C7
\* C7: getFoodById returns the record of the dataset that has the id and
\* the "not found" value when no record has it.
C7_LookupById ==
  op = "getFoodById" =>
    /\ \A i \in 1..Len(tacoFile) :
         tacoFile[i].id = args.id => (result.kind = "food" /\ result.items = <<tacoFile[i]>>)
    /\ (\A i \in 1..Len(tacoFile) : tacoFile[i].id # args.id) =>
         (result.kind = "notFound" /\ result.items = <<>>)

\* a lookup that found a record which is not the first of the dataset
C7_Witness ==
  /\ op = "getFoodById"
  /\ result.kind = "food"
  /\ Len(tacoFile) >= 2
  /\ result.items[1] # tacoFile[1]

\* ------------------------------------------------------------------- C8
\* the position of the first record of the category
FirstOccurrence(data, category) ==
  CHOOSE p \in 1..Len(data) :
    data[p].category = category /\ \A q \in 1..(p - 1) : data[q].category # category

\* C8: listCategories returns each category of the dataset once, in the
\* order of first occurrence, and nothing else.
C8_CategoriesOnce ==
  op = "listCategories" =>
    /\ {result.items[i] : i \in 1..Len(result.items)}
         = {tacoFile[p].category : p \in 1..Len(tacoFile)}
    /\ \A i, j \in 1..Len(result.items) :
         i < j => /\ result.items[i] # result.items[j]
                  /\ FirstOccurrence(tacoFile, result.items[i])
                       < FirstOccurrence(tacoFile, result.items[j])

\* a listing of two categories where the first one occurs again after the
\* second one
C8_Witness ==
  /\ op = "listCategories"
  /\ Len(result.items) = 2
  /\ Len(tacoFile) = 3
  /\ tacoFile[3].category = result.items[1]
  /\ tacoFile[2].category = result.items[2]

\* ------------------------------------------------------------------- C9
\* C9: randomFood returns a record of the dataset, picked at an index
\* within 0..length-1, for every draw; on an empty dataset it returns the
\* "no data" value.
C9_RandomInDataset ==
  op = "randomFood" =>
    IF Len(tacoFile) > 0
    THEN /\ args.idx \in 0..(Len(tacoFile) - 1)
         /\ result.kind = "food"
         /\ \E p \in 1..Len(tacoFile) : result.items = <<tacoFile[p]>>
    ELSE result.kind = "noData"

\* the largest draw on a dataset of several records picked the last one
C9_Witness ==
  /\ op = "randomFood"
  /\ Len(tacoFile) >= 2
  /\ args.random = RandomSteps - 1
  /\ result.kind = "food"
  /\ result.items = <<tacoFile[Len(tacoFile)]>>

\* ------------------------------------------------------------------ C10
NutrientFields == {NutrientFilters[k][1] : k \in 1..Len(NutrientFilters)}

\* C10: every nutrient field of every record that the tools read (the
\* array loadTacoData returns and the documents indexed at startup) is a
\* number or the absent marker, namely the nullableNumber coercion of the
\* value in the file.
C10_LoadedFieldsCoerced ==
  \A data \in {loadTacoData(tacoFile), miniSearch} :
    \A i \in 1..Len(data) : \A f \in NutrientFields :
      /\ data[i][f].t \in {"number", "null"}
      /\ data[i][f] = nullableNumber(tacoFile[i][f])

\* ------------------------------------------------------------------ C11
\* in seq no record without a number in the field precedes a record with
\* a number in it
AbsentLast(seq, field) ==
  \A i, j \in 1..Len(seq) :
    (i < j /\ Numeric(JsGet(seq[j], field))) => Numeric(JsGet(seq[i], field))

\* C11: when advancedFoodSearch or a batch object item sorts by a field,
\* the records without a value for the field come after all records with
\* one, in both directions, and the sort has a single possible outcome.
C11_AbsentSortsLast ==
  /\ (op = "advancedFoodSearch" /\ args.sort_by # "undefined") =>
       /\ AbsentLast(results, args.sort_by)
       /\ Cardinality(SortedResults(FilterResults(loadTacoData(tacoFile), args), args)) = 1
  /\ op = "batchFoodSearch" =>
       \A b \in 1..Len(result.items) :
         (args.queries[b].kind = "object" /\ args.queries[b].q.sort_by # "undefined") =>
           AbsentLast(result.items[b].items, args.queries[b].q.sort_by)

\* ------------------------------------------------------------------ C12
\* the record passes the text constraint: no text, or the lower-cased text
\* occurs in the lower-cased description or category
TextCandidate(item, query) ==
  \/ query = JsUndefined
  \/ query.s = <<>>
  \/ \E field \in {ToLowerCase(item.description), ToLowerCase(item.category)} :
       \E k \in 0..(Len(field) - Len(query.s)) :
         SubSeq(field, k + 1, k + Len(query.s)) = ToLowerCase(query.s)

TextCandidates(data, query) ==
  {data[p] : p \in {q \in 1..Len(data) : TextCandidate(data[q], query)}}

Elements(seq) == {seq[i] : i \in 1..Len(seq)}

\* C12: searchFoods with the empty text finds nothing; advancedFoodSearch
\* and batch object items keep only records that pass the text constraint,
\* and with no range constraint (and, in a batch, no limit) the records
\* they work on are exactly the records that pass it, the whole dataset
\* when the text is absent or empty.
C12_TextConstraint ==
  /\ (op = "searchFoods" /\ args.query = <<>>) => (results = <<>> /\ result = NoFoods)
  /\ op = "advancedFoodSearch" =>
       /\ Elements(results) \subseteq TextCandidates(tacoFile, args.query)
       /\ Constrained(args) = {} =>
            (/\ Elements(results) = TextCandidates(tacoFile, args.query)
             /\ Len(results) = Cardinality(TextCandidates(tacoFile, args.query)))
  /\ op = "batchFoodSearch" =>
       \A b \in 1..Len(result.items) :
         args.queries[b].kind = "object" =>
           LET q == args.queries[b].q
               items == result.items[b].items
           IN /\ Elements(items) \subseteq TextCandidates(tacoFile, q.query)
              /\ (Constrained(q) = {} /\ q.limit = JsUndefined) =>
                   (/\ Elements(items) = TextCandidates(tacoFile, q.query)
                    /\ Len(items) = Cardinality(TextCandidates(tacoFile, q.query)))

\* an advanced search for "a" without ranges that kept a record matching
\* through its upper-case description, kept a record matching through its
\* category only, and dropped a record
C12_Witness ==
  /\ op = "advancedFoodSearch"
  /\ args.query = JsStr(<<"a">>)
  /\ Constrained(args) = {}
  /\ \E i \in 1..Len(results) : results[i].description = <<"A", "b">>
  /\ \E i \in 1..Len(results) :
       /\ ~Includes(ToLowerCase(results[i].description), <<"a">>)
       /\ Includes(ToLowerCase(results[i].category), <<"a">>)
  /\ Len(results) < Len(tacoFile)
====
